---- MODULE Spec2Model ----
(***************************************************************************)
(* Model of the dispatch loop executar_politica of src/src/main.py: one    *)
(* policy run over a pool of capacity-bounded servers.  The scheduler      *)
(* (scheduler.py), the workers (worker.py) and the queue helpers (ipc.py)  *)
(* are not part of the sources at hand; they are modelled from their       *)
(* documented contracts.                                                   *)
(***************************************************************************)
EXTENDS Integers, Sequences, FiniteSets

\* ------------------------------------------------------------------ bounds
MaxTasks == 2
MaxServers == 2
MaxExec == 3
MaxPrio == 2
MaxCap == 2
MaxQuantum == 2
\* width of the observer counters (they saturate instead of growing forever)
CountCap == 7
\* stray responses a run may receive, in the specification that allows them
MaxRogue == 1

\* ------------------------------------------------------------- conventions
\* Python's None for last_worker, and an absent key of a dispatch message
None == 0
Absent == -1

Policies == {"rr", "sjf", "prioridade"}

VARIABLES
    policy,      \* argument policy
    cfg,         \* argument cfg: [quantum, servidores, requisicoes]
    pending,     \* list of task dicts
    estados,     \* sid -> [cap, load, busy]
    filas,       \* sid -> queue of dispatch messages
    retorno,     \* shared queue of responses
    completed,   \* task id -> [end]
    elegiveis,   \* ids of the tasks still to assign in this cycle
    livres,      \* list of free server ids
    pc,          \* position of the main loop
    alive,       \* sid -> worker process still in its loop
    working,     \* sid -> the dispatch message the worker is running
    observing,   \* observer: whether the observers below record the run
    lastDisp,    \* observer: the last dispatch made
    lastEvent,   \* observer: the last event printed
    lastResp,    \* observer: the last response handled
    nDisp,       \* observer: task id -> number of dispatches
    sumDur,      \* observer: task id -> sum of the durations of its responses
    nEvents,     \* observer: event kind -> number of events printed
    cycleElig,   \* observer: the tasks eligible at the start of the assignment phase
    cycleDisp,   \* observer: the ids dispatched in the assignment phase, in order
    waitingAt,   \* observer: task id -> tasks eligible at its last dispatch and
                 \*           not dispatched since
    overtaken,   \* observer: the tasks the last dispatch went ahead of
    nRogue       \* number of stray responses written so far

vars == <<policy, cfg, pending, estados, filas, retorno, completed, elegiveis,
          livres, pc, alive, working, observing, lastDisp, lastEvent, lastResp, nDisp,
          sumDur, nEvents, cycleElig, cycleDisp, waitingAt, overtaken, nRogue>>

obsVars == <<observing, lastDisp, lastEvent, lastResp, nDisp, sumDur, nEvents,
             cycleElig, cycleDisp, waitingAt, overtaken, nRogue>>

\* ------------------------------------------------------------------ helpers
Bump(n) == IF n < CountCap THEN n + 1 ELSE n

Range(s) == {s[i] : i \in DOMAIN s}

Min(a, b) == IF a <= b THEN a ELSE b

\* position of the task with this id in a list of task dicts (0 when absent)
IndexOf(pend, id) ==
    IF \E i \in DOMAIN pend : pend[i].id = id
    THEN CHOOSE i \in DOMAIN pend :
            pend[i].id = id /\ \A j \in DOMAIN pend : pend[j].id = id => i <= j
    ELSE 0

TaskOf(pend, id) == pend[IndexOf(pend, id)]

ServerIds == {cfg.servidores[i].id : i \in DOMAIN cfg.servidores}
TaskIds == {cfg.requisicoes[i].id : i \in DOMAIN cfg.requisicoes}

\* iteration order of the dicts filas and estados: insertion order
ServerOrder == [i \in DOMAIN cfg.servidores |-> cfg.servidores[i].id]

\* ------------------------------------------------------------ configuration
Requisicoes ==
    UNION {{r \in [1..n -> [id : 1..n, prioridade : 1..MaxPrio, tempo_exec : 1..MaxExec]] :
              \A i \in 1..n : r[i].id = i} : n \in 1..MaxTasks}

Servidores ==
    UNION {{s \in [1..n -> [id : 1..n, capacidade : 0..MaxCap]] :
              \A i, j \in 1..n : s[i].id = s[j].id => i = j} : n \in 1..MaxServers}

Configs(minQuantum) ==
    [quantum : minQuantum..MaxQuantum, servidores : Servidores, requisicoes : Requisicoes]

\* ------------------------------------------------- scheduler (scheduler.py)
InsertSorted(s, x, key) ==
    LET c == Cardinality({i \in DOMAIN s : key[s[i]] <= key[x]})
    IN  SubSeq(s, 1, c) \o <<x>> \o SubSeq(s, c + 1, Len(s))

RECURSIVE StableSort(_, _)
StableSort(s, key) ==
    IF s = <<>> THEN <<>>
    ELSE InsertSorted(StableSort(SubSeq(s, 1, Len(s) - 1), key), s[Len(s)], key)

\* Scheduler.reorder: rr keeps the order, sjf sorts by remaining, prioridade
\* by priority; equal keys keep their order
Reorder(pol, ids, pend) ==
    IF pol = "sjf"
    THEN StableSort(ids, [id \in Range(ids) |-> TaskOf(pend, id).remaining])
    ELSE IF pol = "prioridade"
    THEN StableSort(ids, [id \in Range(ids) |-> TaskOf(pend, id).prioridade])
    ELSE ids

\* Scheduler.next_task: pops the head of the list
NextTask(ids) == Head(ids)
AfterNextTask(ids) == Tail(ids)

\* ------------------------------------------------------- worker (worker.py)
\* a worker runs the slice or the exec_time it is sent and reports what is left
ExecAmount(msg) == IF msg.slice # Absent THEN msg.slice ELSE msg.exec_time

WorkerResponse(sid, msg) ==
    [worker |-> sid, id |-> msg.id, duration |-> ExecAmount(msg),
     remaining |-> msg.remaining - ExecAmount(msg)]

ExitMsg == [tag |-> "EXIT", id |-> 0, priority |-> 0, remaining |-> 0,
            slice |-> Absent, exec_time |-> Absent]

\* what a worker holds while it waits on its queue
IdleMsg == [tag |-> "idle", id |-> 0, priority |-> 0, remaining |-> 0,
            slice |-> Absent, exec_time |-> Absent]

\* ------------------------------------------------------- executar_politica
\* line 30-36
InitialPending(c) ==
    [i \in DOMAIN c.requisicoes |->
        [id |-> c.requisicoes[i].id,
         prioridade |-> c.requisicoes[i].prioridade,
         tempo_exec |-> c.requisicoes[i].tempo_exec,
         remaining |-> c.requisicoes[i].tempo_exec,
         running |-> FALSE,
         last_worker |-> None]]

\* line 40
CapOf(c, sid) ==
    c.servidores[CHOOSE i \in DOMAIN c.servidores : c.servidores[i].id = sid].capacidade

InitialEstados(c) ==
    [sid \in {c.servidores[i].id : i \in DOMAIN c.servidores} |->
        [cap |-> CapOf(c, sid), load |-> 0, busy |-> 0]]

\* mutant: the running flag is not looked at
IsEligibleAnyRunning(t) == t.remaining > 0

\* line 51
IsEligible(t) == ~t.running /\ t.remaining > 0

Elegiveis(pend) ==
    LET sel == SelectSeq(pend, IsEligible)
    IN  [i \in DOMAIN sel |-> sel[i].id]

\* mutant: the call of reorder is left out
OrderedElegiveisNoReorder(pol, pend) == Elegiveis(pend)

\* line 51-52: the eligible tasks, reordered in place by the scheduler
OrderedElegiveis(pol, pend) == Reorder(pol, Elegiveis(pend), pend)

\* mutant: a full server still counts as free
IsFreeOffByOne(st) == st.load <= st.cap

\* line 55 and 120
IsFree(st) == st.load < st.cap

Livres(est) == SelectSeq(ServerOrder, LAMBDA sid : IsFree(est[sid]))

\* mutant: the chosen server is dropped from the list instead
LivresAposAtribuicaoDropped(free, sid, est) == SelectSeq(free, LAMBDA x : x # sid)

\* line 120: the free list is computed again after a dispatch
LivresAposAtribuicao(free, sid, est) == Livres(est)

\* mutant: the head of the list, whatever its load
MinByLoadHead(list, est) == list[1]

\* min(list, key=load): the first element of the list with the least load
MinByLoad(list, est) ==
    list[CHOOSE i \in DOMAIN list :
            /\ \A j \in DOMAIN list : est[list[i]].load <= est[list[j]].load
            /\ \A j \in DOMAIN list : est[list[j]].load = est[list[i]].load => i <= j]

\* line 68
Candidatos(t, free) == SelectSeq(free, LAMBDA sid : sid # t.last_worker)

\* mutant: the last worker is not avoided
EscolherServidorNoMigration(t, free, est) == MinByLoad(free, est)

\* line 66-77
EscolherServidor(t, free, est) ==
    IF t.last_worker # None
    THEN IF Candidatos(t, free) # <<>>
         THEN MinByLoad(Candidatos(t, free), est)
         ELSE MinByLoad(free, est)
    ELSE MinByLoad(free, est)

\* mutant: the slice is the quantum, whatever is left of the task
DispatchMsgNoMin(pol, quantum, t) ==
    [tag |-> "task", id |-> t.id, priority |-> t.prioridade, remaining |-> t.remaining,
     slice |-> IF pol = "rr" THEN quantum ELSE Absent,
     exec_time |-> IF pol = "rr" THEN Absent ELSE t.remaining]

\* mutant: every policy sends a slice of at most a quantum as its exec_time
DispatchMsgAlwaysQuantum(pol, quantum, t) ==
    [tag |-> "task", id |-> t.id, priority |-> t.prioridade, remaining |-> t.remaining,
     slice |-> IF pol = "rr" THEN Min(quantum, t.remaining) ELSE Absent,
     exec_time |-> IF pol = "rr" THEN Absent ELSE Min(quantum, t.remaining)]

\* line 85-94
DispatchMsg(pol, quantum, t) ==
    [tag |-> "task", id |-> t.id, priority |-> t.prioridade, remaining |-> t.remaining,
     slice |-> IF pol = "rr" THEN Min(quantum, t.remaining) ELSE Absent,
     exec_time |-> IF pol = "rr" THEN Absent ELSE t.remaining]

\* mutant: every re-dispatch is logged as a migration
DispatchEventKindAnyRedispatch(last, sid) ==
    IF last # None THEN "migration" ELSE "assignment"

\* line 100
DispatchEventKind(last, sid) ==
    IF last # None /\ last # sid THEN "migration" ELSE "assignment"

\* line 82-83
OpenRecord(comp, id) ==
    IF id \in DOMAIN comp THEN comp
    ELSE [k \in DOMAIN comp \cup {id} |-> IF k = id THEN [end |-> FALSE] ELSE comp[k]]

\* mutant: the end of the record is not set
CloseRecordNever(comp, id) == comp

\* line 145
CloseRecord(comp, id) == [comp EXCEPT ![id].end = TRUE]

\* line 145: completed[resp["id"]] of an id that was never dispatched
KeyError(comp, resp) == resp.remaining = 0 /\ resp.id \notin DOMAIN comp

\* mutant: the duration is not added
BusyAfterResponseKept(busy, resp) == busy

\* line 131
BusyAfterResponse(busy, resp) == busy + resp.duration

\* mutant: the dispatch is not counted
LoadAfterDispatchKept(load) == load

\* line 97
LoadAfterDispatch(load) == load + 1

\* mutant: the load is not given back
LoadAfterResponseKept(load) == load

\* line 132
LoadAfterResponse(load) == load - 1

\* mutant: every task of the list is marked as not running
UpdateTaskAll(pend, resp) ==
    [i \in DOMAIN pend |->
        IF pend[i].id = resp.id
        THEN [pend[i] EXCEPT !.remaining = resp.remaining, !.running = FALSE]
        ELSE [pend[i] EXCEPT !.running = FALSE]]

\* mutant: the remaining of the response is not stored
UpdateTaskKeepRemaining(pend, resp) ==
    LET i == IndexOf(pend, resp.id)
    IN  IF i = 0 THEN pend ELSE [pend EXCEPT ![i].running = FALSE]

\* line 138-142
UpdateTask(pend, resp) ==
    LET i == IndexOf(pend, resp.id)
    IN  IF i = 0 THEN pend
        ELSE [pend EXCEPT ![i].remaining = resp.remaining, ![i].running = FALSE]

\* mutant: the finished task stays in the list
RemoveTaskKept(pend, id) == pend

\* line 146
RemoveTask(pend, id) == SelectSeq(pend, LAMBDA p : p.id # id)

\* line 144
IsCompletion(resp) == resp.remaining = 0

\* mutant: the loop ends as soon as no task is running
AllDoneNoneRunning(pend) == \A i \in DOMAIN pend : ~pend[i].running

\* line 159
AllDone(pend) == \A i \in DOMAIN pend : pend[i].remaining = 0

\* line 183-184
Shutdown(qs) == [sid \in DOMAIN qs |-> Append(qs[sid], ExitMsg)]

NoDisp == [id |-> 0, from |-> None, to |-> None, running |-> FALSE, free |-> <<>>,
           loads |-> <<>>, kind |-> "none", msg |-> ExitMsg]

NoResp == [worker |-> 0, id |-> 0, duration |-> 0, remaining |-> 0, before |-> 0,
           known |-> TRUE]

InitWith(c, pol, obs) ==
    /\ policy = pol
    /\ observing = obs
    /\ cfg = c
    /\ pending = InitialPending(c)
    /\ estados = InitialEstados(c)
    /\ filas = [sid \in DOMAIN InitialEstados(c) |-> <<>>]
    /\ retorno = <<>>
    /\ completed = <<>>
    /\ elegiveis = <<>>
    /\ livres = <<>>
    /\ pc = "cycle"
    /\ alive = [sid \in DOMAIN InitialEstados(c) |-> TRUE]
    /\ working = [sid \in DOMAIN InitialEstados(c) |-> IdleMsg]
    /\ lastDisp = NoDisp
    /\ lastEvent = "none"
    /\ lastResp = NoResp
    /\ nDisp = [id \in 1..Len(c.requisicoes) |-> 0]
    /\ sumDur = [id \in 1..Len(c.requisicoes) |-> 0]
    /\ nEvents = [k \in {"assignment", "migration", "completion", "preemption"} |-> 0]
    /\ cycleElig = <<>>
    /\ cycleDisp = <<>>
    /\ waitingAt = [id \in 1..Len(c.requisicoes) |-> {}]
    /\ overtaken = {}
    /\ nRogue = 0

Init == \E c \in Configs(1), pol \in Policies : InitWith(c, pol, TRUE)

\* line 47-55: start of a cycle
BeginCycle ==
    /\ pc = "cycle"
    /\ elegiveis' = OrderedElegiveis(policy, pending)
    /\ livres' = Livres(estados)
    /\ pc' = "assign"
    /\ IF observing
       THEN /\ cycleElig' = SelectSeq(pending, IsEligible)
            /\ cycleDisp' = <<>>
       ELSE UNCHANGED <<cycleElig, cycleDisp>>
    /\ UNCHANGED <<policy, cfg, pending, estados, filas, retorno, completed, alive, working,
                   observing, lastDisp, lastEvent, lastResp, nDisp, sumDur, nEvents,
                   waitingAt, overtaken, nRogue>>

\* line 60-120: one iteration of the assignment loop
Assign ==
    /\ pc = "assign"
    /\ elegiveis # <<>> /\ livres # <<>>
    /\ LET t == TaskOf(pending, NextTask(elegiveis))
           i == IndexOf(pending, t.id)
           sid == EscolherServidor(t, livres, estados)
           msg == DispatchMsg(policy, cfg.quantum, t)
           kind == DispatchEventKind(t.last_worker, sid)
           est2 == [estados EXCEPT ![sid].load = LoadAfterDispatch(@)]
       IN  /\ elegiveis' = AfterNextTask(elegiveis)
           /\ pending' = [pending EXCEPT ![i].running = TRUE, ![i].last_worker = sid]
           /\ completed' = OpenRecord(completed, t.id)
           /\ filas' = [filas EXCEPT ![sid] = Append(@, msg)]
           /\ estados' = est2
           /\ livres' = LivresAposAtribuicao(livres, sid, est2)
           /\ IF observing
              THEN /\ lastDisp' = [id |-> t.id, from |-> t.last_worker, to |-> sid,
                                   running |-> t.running, free |-> livres,
                                   loads |-> [k \in DOMAIN livres |-> estados[livres[k]].load],
                                   kind |-> kind, msg |-> msg]
                   /\ lastEvent' = kind
                   /\ nDisp' = [nDisp EXCEPT ![t.id] = Bump(@)]
                   /\ nEvents' = [nEvents EXCEPT ![kind] = Bump(@)]
                   /\ cycleDisp' = Append(cycleDisp, t.id)
                   /\ overtaken' = waitingAt[t.id]
                   /\ waitingAt' =
                         [id \in DOMAIN waitingAt |->
                             IF id = t.id
                             THEN {pending[j].id : j \in {k \in DOMAIN pending :
                                                            k # i /\ IsEligible(pending[k])}}
                             ELSE waitingAt[id] \ {t.id}]
              ELSE UNCHANGED <<lastDisp, lastEvent, nDisp, nEvents, cycleDisp, overtaken,
                               waitingAt>>
    /\ UNCHANGED <<policy, cfg, retorno, pc, alive, working, observing, lastResp, sumDur,
                   cycleElig, nRogue>>

\* line 60: the assignment loop ends
AssignEnd ==
    /\ pc = "assign"
    /\ elegiveis = <<>> \/ livres = <<>>
    /\ pc' = "drain"
    /\ cycleElig' = <<>>
    /\ cycleDisp' = <<>>
    /\ UNCHANGED <<policy, cfg, pending, estados, filas, retorno, completed, elegiveis,
                   livres, alive, working, observing, lastDisp, lastEvent, lastResp, nDisp,
                   sumDur, nEvents, waitingAt, overtaken, nRogue>>

\* what the observers record of a handled response
ObserveResponse(resp, kind) ==
    /\ lastResp' = [worker |-> resp.worker, id |-> resp.id,
                    duration |-> resp.duration, remaining |-> resp.remaining,
                    before |-> IF IndexOf(pending, resp.id) = 0 THEN 0
                               ELSE TaskOf(pending, resp.id).remaining,
                    known |-> IndexOf(pending, resp.id) # 0]
    /\ lastEvent' = kind
    /\ sumDur' = IF resp.id \in DOMAIN sumDur
                 THEN [sumDur EXCEPT ![resp.id] = @ + resp.duration]
                 ELSE sumDur

\* line 125-156: one response drained and handled
Drain ==
    /\ pc = "drain"
    /\ retorno # <<>>
    /\ ~KeyError(completed, Head(retorno))
    /\ LET resp == Head(retorno)
           sid == resp.worker
           kind == IF IsCompletion(resp) THEN "completion" ELSE "preemption"
           pend2 == UpdateTask(pending, resp)
       IN  /\ retorno' = Tail(retorno)
           /\ estados' = [estados EXCEPT ![sid].busy = BusyAfterResponse(@, resp),
                                         ![sid].load = LoadAfterResponse(@)]
           /\ pending' = IF IsCompletion(resp) THEN RemoveTask(pend2, resp.id) ELSE pend2
           /\ completed' = IF IsCompletion(resp)
                           THEN CloseRecord(completed, resp.id)
                           ELSE completed
           /\ IF observing
              THEN /\ ObserveResponse(resp, kind)
                   /\ nEvents' = [nEvents EXCEPT ![kind] = Bump(@)]
              ELSE UNCHANGED <<lastResp, lastEvent, sumDur, nEvents>>
    /\ UNCHANGED <<policy, cfg, filas, elegiveis, livres, pc, alive, working, observing,
                   lastDisp, nDisp, cycleElig, cycleDisp, waitingAt, overtaken, nRogue>>

\* line 130-145: a response with remaining 0 for an id that has no record:
\* the load and the busy time are updated, then completed[...] raises KeyError
DrainKeyError ==
    /\ pc = "drain"
    /\ retorno # <<>>
    /\ KeyError(completed, Head(retorno))
    /\ LET resp == Head(retorno)
           sid == resp.worker
       IN  /\ retorno' = Tail(retorno)
           /\ estados' = [estados EXCEPT ![sid].busy = BusyAfterResponse(@, resp),
                                         ![sid].load = LoadAfterResponse(@)]
           /\ pending' = UpdateTask(pending, resp)
           /\ IF observing
              THEN ObserveResponse(resp, "error")
              ELSE UNCHANGED <<lastResp, lastEvent, sumDur>>
    /\ pc' = "error"
    /\ UNCHANGED <<policy, cfg, filas, completed, elegiveis, livres, alive, working,
                   observing, lastDisp, nDisp, nEvents, cycleElig, cycleDisp, waitingAt,
                   overtaken, nRogue>>

\* line 126-128: the return queue is empty
DrainEnd ==
    /\ pc = "drain"
    /\ retorno = <<>>
    /\ pc' = "check"
    /\ UNCHANGED <<policy, cfg, pending, estados, filas, retorno, completed, elegiveis,
                   livres, alive, working, obsVars>>

\* line 159-162: tasks are left, sleep and start the next cycle
Sleep ==
    /\ pc = "check"
    /\ ~AllDone(pending)
    /\ pc' = "cycle"
    /\ UNCHANGED <<policy, cfg, pending, estados, filas, retorno, completed, elegiveis,
                   livres, alive, working, obsVars>>

\* line 159-186: the loop exits, metrics, EXIT to every worker
Terminate ==
    /\ pc = "check"
    /\ AllDone(pending)
    /\ filas' = Shutdown(filas)
    /\ pc' = "done"
    /\ UNCHANGED <<policy, cfg, pending, estados, retorno, completed, elegiveis,
                   livres, alive, working, obsVars>>

\* a worker takes the next dispatch of its queue and starts running it
WorkerTake(sid) ==
    /\ sid \in DOMAIN filas
    /\ alive[sid]
    /\ working[sid].tag = "idle"
    /\ filas[sid] # <<>>
    /\ Head(filas[sid]).tag = "task"
    /\ working' = [working EXCEPT ![sid] = Head(filas[sid])]
    /\ filas' = [filas EXCEPT ![sid] = Tail(@)]
    /\ UNCHANGED <<policy, cfg, pending, estados, retorno, completed, elegiveis, livres,
                   pc, alive, obsVars>>

\* a worker has run the dispatch it holds and answers on the return queue
WorkerRespond(sid) ==
    /\ sid \in DOMAIN filas
    /\ working[sid].tag = "task"
    /\ retorno' = Append(retorno, WorkerResponse(sid, working[sid]))
    /\ working' = [working EXCEPT ![sid] = IdleMsg]
    /\ UNCHANGED <<policy, cfg, pending, estados, filas, completed, elegiveis, livres,
                   pc, alive, obsVars>>

\* a worker leaves its loop on EXIT
WorkerExit(sid) ==
    /\ sid \in DOMAIN filas
    /\ alive[sid]
    /\ working[sid].tag = "idle"
    /\ filas[sid] # <<>>
    /\ Head(filas[sid]).tag = "EXIT"
    /\ filas' = [filas EXCEPT ![sid] = Tail(@)]
    /\ alive' = [alive EXCEPT ![sid] = FALSE]
    /\ UNCHANGED <<policy, cfg, pending, estados, retorno, completed, elegiveis, livres,
                   pc, working, obsVars>>

MainStep == BeginCycle \/ Assign \/ AssignEnd \/ Drain \/ DrainEnd \/ Sleep \/ Terminate

WorkersTake == \E sid \in DOMAIN filas : WorkerTake(sid)

WorkersRespond == \E sid \in DOMAIN filas : WorkerRespond(sid)

WorkersExit == \E sid \in DOMAIN filas : WorkerExit(sid)

Next == MainStep \/ WorkersTake \/ WorkersRespond \/ WorkersExit

Spec == Init /\ [][Next]_vars

\* The main loop is one thread that keeps running, and every worker is a
\* process of its own that answers what it is sent.
Fairness ==
    /\ WF_vars(MainStep)
    /\ \A sid \in 1..MaxServers : WF_vars(WorkerTake(sid)) /\ WF_vars(WorkerRespond(sid))

\* any quantum from 0 on: the configurations the termination claim speaks of.
\* The observers are off, so that a run that never ends is a cycle of states
\* of the program.
InitLive == \E c \in Configs(0), pol \in Policies : InitWith(c, pol, FALSE)

LiveSpec == InitLive /\ [][Next]_vars /\ Fairness

\* the scenario: two servers of capacity 1, one task of 5 seconds and
\* priority 1, round-robin with a quantum of 2
ScenarioConfigs ==
    {c \in [quantum : {2},
            servidores : [1..2 -> [id : 1..2, capacidade : {1}]],
            requisicoes : {<<[id |-> 1, prioridade |-> 1, tempo_exec |-> 5]>>}] :
        c.servidores[1].id # c.servidores[2].id}

InitScenario == \E c \in ScenarioConfigs : InitWith(c, "rr", TRUE)

SpecScenario == InitScenario /\ [][Next]_vars

\* a response nobody asked for: some worker answers for an id that is not in
\* the pending list (an id that was never configured, or a task that is done)
RogueResponse ==
    /\ nRogue < MaxRogue
    /\ pc \notin {"done", "error"}
    /\ \E sid \in DOMAIN estados, id \in (1..(Len(cfg.requisicoes) + 1)) \ {pending[i].id : i \in DOMAIN pending}, rem \in 0..1 :
          retorno' = Append(retorno, [worker |-> sid, id |-> id, duration |-> 1,
                                      remaining |-> rem])
    /\ nRogue' = nRogue + 1
    /\ UNCHANGED <<policy, cfg, pending, estados, filas, completed, elegiveis, livres, pc,
                   alive, working, observing, lastDisp, lastEvent, lastResp, nDisp, sumDur,
                   nEvents, cycleElig, cycleDisp, waitingAt, overtaken>>

NextRogue == Next \/ RogueResponse \/ DrainKeyError

\* the scenario configuration, with a stray response allowed
SpecRogue == InitScenario /\ [][NextRogue]_vars

\* ------------------------------------------------------------ observations
PendingIds == {pending[i].id : i \in DOMAIN pending}

\* dispatches of a task sent and not yet answered
InQueues(id) ==
    UNION {{<<sid, i>> : i \in {j \in DOMAIN filas[sid] :
                                  filas[sid][j].tag = "task" /\ filas[sid][j].id = id}} :
           sid \in DOMAIN filas}

\* responses of a task written and not yet handled
InRetorno(id) == {i \in DOMAIN retorno : retorno[i].id = id}

\* workers running a dispatch of a task
InWorkers(id) == {sid \in DOMAIN working : working[sid].tag = "task" /\ working[sid].id = id}

Outstanding(id) ==
    Cardinality(InQueues(id)) + Cardinality(InWorkers(id)) + Cardinality(InRetorno(id))

Dispatched == lastDisp.id # 0
Responded == lastResp.id # 0

\* C1: in every reachable state every server has 0 <= load <= capacity
C1_CapacityInvariant ==
    \A sid \in DOMAIN estados : 0 <= estados[sid].load /\ estados[sid].load <= estados[sid].cap

\* a server filled to a capacity of two after a response was handled
C1_Witness ==
    /\ Responded
    /\ \E sid \in DOMAIN estados : estados[sid].cap >= 2 /\ estados[sid].load = estados[sid].cap

\* C2: a task has at most one outstanding dispatch, it has one exactly while its
\* running flag is set, and it was not running when it was dispatched
C2_OneOutstandingDispatch ==
    /\ \A id \in TaskIds :
          /\ Outstanding(id) <= 1
          /\ Outstanding(id) = 1 <=> (id \in PendingIds /\ TaskOf(pending, id).running)
    /\ Dispatched => ~lastDisp.running

\* two tasks are out at once, one of them on its second dispatch
C2_Witness ==
    \E a, b \in TaskIds :
        /\ a # b /\ Outstanding(a) = 1 /\ Outstanding(b) = 1
        /\ nDisp[a] >= 2

C5_MigrationPreferred ==
    (Dispatched /\ lastDisp.from # None) =>
        /\ (\E s \in Range(lastDisp.free) : s # lastDisp.from) => lastDisp.to # lastDisp.from
        /\ lastDisp.to = lastDisp.from => Range(lastDisp.free) = {lastDisp.from}

\* the last worker was free and had the least load, and the task went elsewhere
C5_Witness ==
    /\ Dispatched /\ lastDisp.from # None /\ lastDisp.to # lastDisp.from
    /\ \E i, j \in DOMAIN lastDisp.free :
          /\ lastDisp.free[i] = lastDisp.from /\ lastDisp.free[j] = lastDisp.to
          /\ lastDisp.loads[i] < lastDisp.loads[j]

\* C6: a dispatch prints a migration event exactly when the task had a last
\* worker and it differs from the chosen server, and an assignment event otherwise
C6_MigrationEvent ==
    Dispatched =>
        /\ lastDisp.kind \in {"migration", "assignment"}
        /\ lastDisp.kind = "migration" <=> (lastDisp.from # None /\ lastDisp.from # lastDisp.to)

\* a task sent again to the server it ran on last: an assignment event
C6_Witness ==
    /\ Dispatched /\ lastDisp.from # None /\ lastDisp.from = lastDisp.to
    /\ lastEvent = "assignment"

\* C3 as stated: with positive execution times and a server of capacity >= 1,
\* and workers that answer, the run ends whatever the quantum
C3_TerminationAnyQuantum ==
    (\E sid \in DOMAIN estados : estados[sid].cap >= 1)
        => <>(pc = "done" /\ pending = <<>>)

\* C3 amended: the same, with a quantum >= 1 under round-robin
C3_Termination ==
    (/\ \E sid \in DOMAIN estados : estados[sid].cap >= 1
     /\ policy = "rr" => cfg.quantum >= 1)
        => <>(pc = "done" /\ pending = <<>>)

\* a round-robin run of two tasks ended, each task longer than the quantum
C3_Witness ==
    /\ pc = "done" /\ pending = <<>>
    /\ policy = "rr" /\ cfg.quantum = 1
    /\ Len(cfg.requisicoes) >= 2
    /\ \A i \in DOMAIN cfg.requisicoes : cfg.requisicoes[i].tempo_exec >= 2

\* C7 as stated: three dispatches with remaining 5, 3, 1, then 0; the same
\* server every time, no migration event, one completion event at the end
C7_ScenarioSameServer ==
    /\ nDisp[1] <= 3
    /\ Dispatched => lastDisp.msg.remaining = 5 - 2 * (nDisp[1] - 1)
    /\ Responded => <<lastResp.before, lastResp.remaining>> \in {<<5, 3>>, <<3, 1>>, <<1, 0>>}
    /\ nEvents["completion"] <= 1
    /\ nEvents["completion"] = 1 => (pending = <<>> /\ lastEvent = "completion")
    /\ pc = "done" => (nDisp[1] = 3 /\ nEvents["completion"] = 1)
    /\ (Dispatched /\ lastDisp.from # None) => lastDisp.to = lastDisp.from
    /\ nEvents["migration"] = 0

\* C7 amended: three dispatches with remaining 5, 3, 1, then 0; each dispatch
\* after the first goes to the other server, two migration events, one
\* completion event at the end
C7_ScenarioAlternates ==
    /\ nDisp[1] <= 3
    /\ Dispatched => lastDisp.msg.remaining = 5 - 2 * (nDisp[1] - 1)
    /\ Responded => <<lastResp.before, lastResp.remaining>> \in {<<5, 3>>, <<3, 1>>, <<1, 0>>}
    /\ nEvents["completion"] <= 1
    /\ nEvents["completion"] = 1 => (pending = <<>> /\ lastEvent = "completion")
    /\ pc = "done" => (nDisp[1] = 3 /\ nEvents["completion"] = 1)
    /\ (Dispatched /\ lastDisp.from # None) => lastDisp.to # lastDisp.from
    /\ Dispatched => nEvents["migration"] = nDisp[1] - 1
    /\ pc = "done" => nEvents["migration"] = 2

\* the scenario has ended after its third dispatch
C7_Witness ==
    /\ pc = "done" /\ nDisp[1] = 3 /\ lastResp.remaining = 0
    /\ cfg.quantum = 2 /\ cfg.requisicoes[1].tempo_exec = 5

\* the candidates of the last dispatch: the free servers other than the last
\* worker when there are any, all the free servers otherwise
LastCandidates ==
    LET others == Range(lastDisp.free) \ {lastDisp.from}
    IN  IF lastDisp.from # None /\ others # {} THEN others ELSE Range(lastDisp.free)

LastLoad(sid) ==
    lastDisp.loads[CHOOSE i \in DOMAIN lastDisp.free : lastDisp.free[i] = sid]

\* position of a server in the configuration
Listed(sid) == CHOOSE i \in DOMAIN cfg.servidores : cfg.servidores[i].id = sid

\* C8 as stated: the chosen server has the least load among the candidates,
\* and among candidates of that load it has the smallest id
C8_LeastLoadedSmallestId ==
    Dispatched =>
        /\ lastDisp.to \in LastCandidates
        /\ \A s \in LastCandidates :
              /\ LastLoad(lastDisp.to) <= LastLoad(s)
              /\ LastLoad(s) = LastLoad(lastDisp.to) => lastDisp.to <= s

\* C8 amended: the chosen server has the least load among the candidates,
\* and among candidates of that load it is the one listed first in the
\* configuration
C8_LeastLoadedFirstListed ==
    Dispatched =>
        /\ lastDisp.to \in LastCandidates
        /\ \A s \in LastCandidates :
              /\ LastLoad(lastDisp.to) <= LastLoad(s)
              /\ LastLoad(s) = LastLoad(lastDisp.to) => Listed(lastDisp.to) <= Listed(s)

\* two candidates of the same load, and the one chosen has the larger id
C8_Witness ==
    /\ Dispatched
    /\ \E s \in LastCandidates :
          s < lastDisp.to /\ LastLoad(s) = LastLoad(lastDisp.to)

Eligible(id) ==
    id \in PendingIds /\ ~TaskOf(pending, id).running /\ TaskOf(pending, id).remaining > 0

Running(id) == id \in PendingIds /\ TaskOf(pending, id).running

Completed(id) ==
    /\ id \notin PendingIds
    /\ id \in DOMAIN completed /\ completed[id].end
    /\ cfg.requisicoes[id].tempo_exec - sumDur[id] = 0

\* C9: every configured task is in exactly one of the states eligible, running
\* and completed, and no task of the pending list has remaining 0
C9_TaskStates ==
    /\ \A id \in TaskIds :
          Cardinality({k \in {"eligible", "running", "completed"} :
                          \/ k = "eligible" /\ Eligible(id)
                          \/ k = "running" /\ Running(id)
                          \/ k = "completed" /\ Completed(id)}) = 1
    /\ \A i \in DOMAIN pending : pending[i].remaining # 0
    /\ \A i, j \in DOMAIN pending : pending[i].id = pending[j].id => i = j

\* one task completed and the other running again after a preemption
C9_Witness ==
    /\ \E a, b \in TaskIds : Completed(a) /\ Running(b) /\ nDisp[b] >= 2
    /\ nEvents["preemption"] >= 1

\* C10: the load of a server is the number of running tasks whose last worker
\* it is, which is the number of its dispatches not yet answered and handled
C10_LoadCountsRunning ==
    \A sid \in DOMAIN estados :
        /\ estados[sid].load =
              Cardinality({i \in DOMAIN pending :
                              pending[i].running /\ pending[i].last_worker = sid})
        /\ estados[sid].load =
              Cardinality({i \in DOMAIN filas[sid] : filas[sid][i].tag = "task"})
              + (IF working[sid].tag = "task" THEN 1 ELSE 0)
              + Cardinality({i \in DOMAIN retorno : retorno[i].worker = sid})

\* a server carries two tasks after a response was handled
C10_Witness ==
    /\ Responded
    /\ \E sid \in DOMAIN estados :
          /\ estados[sid].load = 2
          /\ Cardinality({i \in DOMAIN pending :
                             pending[i].running /\ pending[i].last_worker = sid}) = 2

\* ------------------------------------------------- observations, continued
TaskMsgs(q) == {i \in DOMAIN q : q[i].tag = "task"}

\* the dispatch messages sent and not yet answered
InFlight ==
    UNION {{filas[sid][i] : i \in TaskMsgs(filas[sid])} : sid \in DOMAIN filas}
    \cup {working[sid] : sid \in {x \in DOMAIN working : working[x].tag = "task"}}

\* sentinels sent to a channel: those still queued, and the one its worker took
ExitsSent(sid) ==
    Cardinality({i \in DOMAIN filas[sid] : filas[sid][i].tag = "EXIT"})
    + (IF alive[sid] THEN 0 ELSE 1)

RECURSIVE SumSeq(_)
SumSeq(q) == IF q = <<>> THEN 0 ELSE Head(q) + SumSeq(Tail(q))

\* C11: every channel gets the sentinel once, when the loop has ended with an
\* empty pending list, and no dispatch message follows a sentinel
C11_ShutdownOnce ==
    /\ \A sid \in DOMAIN filas : ExitsSent(sid) = (IF pc = "done" THEN 1 ELSE 0)
    /\ pc = "done" => pending = <<>>
    /\ \A sid \in DOMAIN filas :
          /\ \A i, j \in DOMAIN filas[sid] :
                (i < j /\ filas[sid][i].tag = "EXIT") => filas[sid][j].tag # "task"
          /\ ~alive[sid] => TaskMsgs(filas[sid]) = {}

\* the loop has ended: one worker has left on its sentinel, another has its
\* sentinel still queued
C11_Witness ==
    /\ pc = "done"
    /\ \E a, b \in DOMAIN filas :
          /\ a # b /\ ~alive[a] /\ alive[b]
          /\ Len(filas[b]) = 1 /\ filas[b][1].tag = "EXIT"

MsgWellFormed(m) ==
    /\ m.id \in PendingIds
    /\ m.priority = cfg.requisicoes[m.id].prioridade
    /\ m.remaining = TaskOf(pending, m.id).remaining
    /\ (m.slice = Absent) # (m.exec_time = Absent)
    /\ policy = "rr" => (m.exec_time = Absent /\ m.slice = Min(cfg.quantum, m.remaining))
    /\ policy # "rr" => (m.slice = Absent /\ m.exec_time = m.remaining)

\* C12: a dispatch message carries the id, the priority and the remaining of its
\* task and exactly one of slice (round-robin, min(quantum, remaining)) and
\* exec_time (the other policies, the full remaining)
C12_DispatchMessage ==
    /\ \A m \in InFlight : MsgWellFormed(m)
    /\ Dispatched =>
          /\ (lastDisp.msg.slice = Absent) # (lastDisp.msg.exec_time = Absent)
          /\ lastDisp.msg.id = lastDisp.id
          /\ (lastDisp.msg.slice = Absent) <=> (policy # "rr")

\* a round-robin slice cut below the quantum, on a later dispatch of the task
C12_Witness ==
    \E m \in InFlight :
        /\ policy = "rr" /\ m.slice # Absent /\ m.slice < cfg.quantum
        /\ nDisp[m.id] >= 2

\* C13: a task has a completion record from its first dispatch on, the record
\* is open while the task is pending and closed by the response that removes
\* it, and when the loop has ended every configured task has a closed record
C13_CompletionRecords ==
    /\ DOMAIN completed \subseteq TaskIds
    /\ \A id \in TaskIds :
          /\ id \in DOMAIN completed <=> nDisp[id] >= 1
          /\ id \in DOMAIN completed => (completed[id].end <=> id \notin PendingIds)
    /\ Cardinality({id \in DOMAIN completed : completed[id].end}) = nEvents["completion"]
    /\ pc = "done" => /\ DOMAIN completed = TaskIds
                      /\ \A id \in TaskIds : completed[id].end

\* two tasks, one closed after several dispatches, the other still open
C13_Witness ==
    \E a, b \in DOMAIN completed :
        /\ completed[a].end /\ nDisp[a] >= 2
        /\ ~completed[b].end /\ nDisp[b] >= 2

\* C14: a drained response whose id matches no task of the pending list puts
\* the run in an error state
C14_UnknownResponseFailsLoudly ==
    (Responded /\ ~lastResp.known) => pc = "error"

CycleEligIds == {cycleElig[i].id : i \in DOMAIN cycleElig}

FirstOfCycle == cycleElig[CHOOSE i \in DOMAIN cycleElig : cycleElig[i].id = cycleDisp[1]]

C16_NonPreemptive ==
    policy # "rr" =>
        /\ \A id \in TaskIds : nDisp[id] <= 1
        /\ Responded => lastResp.remaining = 0
        /\ nEvents["preemption"] = 0
        /\ nEvents["migration"] = 0
        /\ pc = "done" => \A id \in TaskIds : nDisp[id] = 1

\* an sjf run of two tasks longer than the quantum has ended
C16_Witness ==
    /\ policy = "sjf" /\ pc = "done" /\ Len(cfg.requisicoes) >= 2
    /\ \A i \in DOMAIN cfg.requisicoes : cfg.requisicoes[i].tempo_exec > cfg.quantum
    /\ nEvents["completion"] = 2

AtAssignEnd == pc = "assign" /\ (elegiveis = <<>> \/ livres = <<>>)

\* C17: when the assignment phase ends, no task eligible at its start is left
\* undispatched while a server has load < capacity, and no task was dispatched
\* twice in the phase
C17_AssignmentExhausts ==
    /\ \A i, j \in DOMAIN cycleDisp : cycleDisp[i] = cycleDisp[j] => i = j
    /\ Range(cycleDisp) \subseteq CycleEligIds
    /\ AtAssignEnd =>
          \/ CycleEligIds \ Range(cycleDisp) = {}
          \/ \A sid \in DOMAIN estados : ~(estados[sid].load < estados[sid].cap)

\* the phase ends with a dispatch made and an eligible task left: every server
\* is full
C17_Witness ==
    /\ AtAssignEnd /\ cycleDisp # <<>>
    /\ CycleEligIds \ Range(cycleDisp) # {}
    /\ \E sid \in DOMAIN estados : estados[sid].cap >= 1

DispatchFrame ==
    Assign =>
        /\ DOMAIN pending' = DOMAIN pending
        /\ \A i \in DOMAIN pending :
              /\ pending'[i].remaining = pending[i].remaining
              /\ pending[i].id # NextTask(elegiveis) => pending'[i] = pending[i]
        /\ \A sid \in DOMAIN estados : estados'[sid].busy = estados[sid].busy
        /\ \E sid \in DOMAIN estados :
              /\ estados'[sid].load = estados[sid].load + 1
              /\ \A o \in DOMAIN estados \ {sid} : estados'[o] = estados[o]

ResponseFrame ==
    Drain =>
        LET resp == Head(retorno)
        IN  /\ \A o \in DOMAIN estados \ {resp.worker} : estados'[o] = estados[o]
            /\ estados'[resp.worker].cap = estados[resp.worker].cap
            /\ \A i \in DOMAIN pending :
                  pending[i].id # resp.id => \E j \in DOMAIN pending' : pending'[j] = pending[i]
            /\ \A j \in DOMAIN pending' :
                  \E i \in DOMAIN pending :
                      /\ pending[i].id = pending'[j].id
                      /\ pending[i].id # resp.id => pending'[j] = pending[i]
                      /\ pending[i].id = resp.id =>
                            pending'[j] = [pending[i] EXCEPT !.remaining = resp.remaining,
                                                             !.running = FALSE]

OnlyResponses ==
    ~Drain => /\ DOMAIN pending' = DOMAIN pending
              /\ \A i \in DOMAIN pending : pending'[i].remaining = pending[i].remaining

\* C18: a dispatch changes no remaining and no busy time and the load of one
\* server only; a handled response changes the responding server and the task
\* it names only; nothing else changes a remaining
C18_Frame == [][DispatchFrame /\ ResponseFrame /\ OnlyResponses]_vars

\* a response was handled while another task runs on another server
C18_Witness ==
    /\ Responded /\ lastEvent \in {"preemption", "completion"}
    /\ \E i \in DOMAIN pending :
          /\ pending[i].id # lastResp.id /\ pending[i].running
          /\ pending[i].last_worker # lastResp.worker
          /\ estados[pending[i].last_worker].load >= 1

\* C19: under round-robin a task is not dispatched again ahead of a task that
\* has been eligible since its previous dispatch
C19_RoundRobinFair ==
    policy = "rr" => overtaken = {}

\* C20: when the loop has ended every load is 0, no task is running, no
\* dispatch or response is on its way, and the busy times add up to the
\* execution times of the configured tasks
C20_NothingOutstanding ==
    pc = "done" =>
        /\ \A sid \in DOMAIN estados : estados[sid].load = 0
        /\ \A i \in DOMAIN pending : ~pending[i].running
        /\ retorno = <<>>
        /\ InFlight = {}
        /\ SumSeq([i \in DOMAIN ServerOrder |-> estados[ServerOrder[i]].busy])
              = SumSeq([i \in DOMAIN cfg.requisicoes |-> cfg.requisicoes[i].tempo_exec])

\* the loop has ended after two servers each ran part of two tasks
C20_Witness ==
    /\ pc = "done" /\ Len(cfg.requisicoes) >= 2
    /\ \E a, b \in DOMAIN estados : a # b /\ estados[a].busy >= 1 /\ estados[b].busy >= 1

====
